---- MODULE Spec2Model ----
(***************************************************************************)
(* Pairwise string evaluation: the evaluator protocol of                   *)
(* langchain/evaluation/schema.py and the PairwiseStringEvalChain with its *)
(* verdict parser of langchain/evaluation/comparison/eval_chain.py.        *)
(*                                                                         *)
(* A Python str is a sequence of one-character strings.  Optional[str] is  *)
(* a record: None, or Some(s).  A dict is a function from its keys.        *)
(***************************************************************************)
EXTENDS Integers, Sequences, FiniteSets, TLC

VARIABLES
    text,          \* the reply handed to PairwiseStringResultOutputParser.parse
    parsed,        \* what that parse call produced (NotParsed before it ran)
    evaluator,     \* the evaluator object the caller holds (NoEvaluator: none)
    construction,  \* the latest PairwiseStringEvalChain.from_llm call
    completion,    \* what the text-completion capability does when invoked
    calls          \* per entry point (sync, async): the evaluation call in progress

vars == <<text, parsed, evaluator, construction, completion, calls>>

(***************************************************************************)
(* Bounds of the model.                                                    *)
(***************************************************************************)
\* longest reply text drawn from the whole alphabet
MaxLen == 4
\* longest reasoning text put in front of a verdict line
MaxReasonLen == 2
\* most opening (and most closing) brackets around a verdict token
MaxBrackets == 3
\* longest reply the completion capability returns in an evaluation call
MaxReplyLen == 3

(***************************************************************************)
(* Python values.                                                          *)
(***************************************************************************)
None == [is_none |-> TRUE, str |-> <<>>]
Some(s) == [is_none |-> FALSE, str |-> s]

\* the characters str.strip() removes that a TLA+ string can name
Whitespace == {" ", "\t", "\n", "\r", "\f"}

ToSet(seq) == {seq[i] : i \in 1..Len(seq)}

Reverse(seq) == [i \in 1..Len(seq) |-> seq[Len(seq) + 1 - i]]

StringsUpTo(alphabet, n) == UNION {[1..k -> alphabet] : k \in 0..n}

Repeat(c, n) == [i \in 1..n |-> c]

\* whether sequence part occurs in sequence whole as a contiguous run
Contains(whole, part) ==
    \E i \in 0..(Len(whole) - Len(part)) :
        \A j \in 1..Len(part) : whole[i + j] = part[j]

NoException == [type |-> "", message |-> <<>>, raised_by |-> ""]

NoValue == [reasoning |-> <<>>, value |-> None, score |-> ""]

\* a call that returned v / a call that raised an exception
Returned(v) == [status |-> "returned", value |-> v, exc |-> NoException]
Raised(type, message, raised_by) ==
    [status |-> "raised", value |-> NoValue,
     exc |-> [type |-> type, message |-> message, raised_by |-> raised_by]]

RECURSIVE lstrip(_, _)
lstrip(s, chars) ==
    IF s # <<>> /\ Head(s) \in chars THEN lstrip(Tail(s), chars) ELSE s

RECURSIVE rstrip(_, _)
rstrip(s, chars) ==
    IF s # <<>> /\ s[Len(s)] \in chars
    THEN rstrip(SubSeq(s, 1, Len(s) - 1), chars)
    ELSE s

\* str.strip(): both ends, every leading and trailing character of chars
strip(s, chars) == rstrip(lstrip(s, chars), chars)

\* str.rsplit(sep, maxsplit=1) for a one-character sep: the list of parts
rsplit(s, sep) ==
    LET at == {i \in 1..Len(s) : s[i] = sep}
    IN  IF at = {}
        THEN <<s>>
        ELSE LET last == CHOOSE i \in at : \A j \in at : j <= i
             IN  <<SubSeq(s, 1, last - 1), SubSeq(s, last + 1, Len(s))>>

(***************************************************************************)
(* PairwiseStringResultOutputParser.parse                                  *)
(***************************************************************************)
\* the f-string of the ValueError for an unrecognised verdict
InvalidVerdictMessage(verdict) ==
    <<"Invalid verdict: ">> \o verdict
        \o <<". ", "Verdict must be one of 'A', 'B', or 'C'.">>

\* the score table of parse: a dict lookup by the verdict after C -> None
ScoreOf(verdict_) ==
    IF verdict_ = Some(<<"A">>) THEN "1"
    ELSE IF verdict_ = Some(<<"B">>) THEN "0"
    ELSE "0.5"

\* a plausible slip: the invalid verdict is reported as a tie, not raised
parse_lenient(reply) ==
    LET parts == rsplit(strip(reply, Whitespace), "\n")
    IN  IF Len(parts) # 2
        THEN Raised("ValueError",
                    <<"not enough values to unpack (expected 2, got 1)">>,
                    "parse")
        ELSE LET verdict == strip(strip(parts[2], {"["}), {"]"})
                 verdict_ == IF verdict \in {<<"A">>, <<"B">>}
                             THEN Some(verdict) ELSE None
             IN  Returned([reasoning |-> parts[1], value |-> verdict_,
                           score |-> ScoreOf(verdict_)])

\* a plausible slip: exactly two brackets are removed on each side
parse_two_brackets(reply) ==
    LET parts == rsplit(strip(reply, Whitespace), "\n")
    IN  IF Len(parts) # 2
        THEN Raised("ValueError",
                    <<"not enough values to unpack (expected 2, got 1)">>,
                    "parse")
        ELSE LET line == parts[2]
                 verdict == IF Len(line) >= 4
                               /\ SubSeq(line, 1, 2) = <<"[", "[">>
                               /\ SubSeq(line, Len(line) - 1, Len(line))
                                      = <<"]", "]">>
                            THEN SubSeq(line, 3, Len(line) - 2)
                            ELSE line
             IN  IF verdict \notin {<<"A">>, <<"B">>, <<"C">>}
                 THEN Raised("ValueError", InvalidVerdictMessage(verdict),
                             "parse")
                 ELSE LET verdict_ == IF verdict = <<"C">>
                                      THEN None ELSE Some(verdict)
                      IN  Returned([reasoning |-> parts[1],
                                    value |-> verdict_,
                                    score |-> ScoreOf(verdict_)])

\* a plausible slip: the reply is split before it is trimmed
parse_untrimmed(reply) ==
    LET parts == rsplit(reply, "\n")
    IN  IF Len(parts) # 2
        THEN Raised("ValueError",
                    <<"not enough values to unpack (expected 2, got 1)">>,
                    "parse")
        ELSE LET verdict == strip(strip(parts[2], {"["}), {"]"})
             IN  IF verdict \notin {<<"A">>, <<"B">>, <<"C">>}
                 THEN Raised("ValueError", InvalidVerdictMessage(verdict),
                             "parse")
                 ELSE LET verdict_ == IF verdict = <<"C">>
                                      THEN None ELSE Some(verdict)
                      IN  Returned([reasoning |-> parts[1],
                                    value |-> verdict_,
                                    score |-> ScoreOf(verdict_)])

parse(reply) ==
    LET parts == rsplit(strip(reply, Whitespace), "\n")
    IN  IF Len(parts) # 2
        THEN \* unpacking one part into (reasoning, verdict) raises ValueError
             Raised("ValueError",
                    <<"not enough values to unpack (expected 2, got 1)">>,
                    "parse")
        ELSE LET verdict == strip(strip(parts[2], {"["}), {"]"})
             IN  IF verdict \notin {<<"A">>, <<"B">>, <<"C">>}
                 THEN Raised("ValueError", InvalidVerdictMessage(verdict),
                             "parse")
                 ELSE LET verdict_ == IF verdict = <<"C">>
                                      THEN None ELSE Some(verdict)
                      IN  Returned([reasoning |-> parts[1],
                                    value |-> verdict_,
                                    score |-> ScoreOf(verdict_)])

(***************************************************************************)
(* Evaluators.  cls is the class the object belongs to: a subclass of      *)
(* StringEvaluator or of PairwiseStringEvaluator (whose abstract methods   *)
(* and capability flags the subclass supplies), or PairwiseStringEvalChain.*)
(***************************************************************************)
NoEvaluator ==
    [cls |-> "", prompt |-> <<>>, requires_input |-> FALSE,
     requires_reference |-> FALSE, has_async |-> FALSE]

\* a subclass of one of the two abstract evaluator classes
Subclass(cls, ri, rr, ha) ==
    [cls |-> cls, prompt |-> <<>>, requires_input |-> ri,
     requires_reference |-> rr, has_async |-> ha]

\* cls(llm=llm, prompt=prompt_): the flags are properties, computed below
Chain(prompt_) ==
    [cls |-> "PairwiseStringEvalChain", prompt |-> prompt_.input_variables,
     requires_input |-> FALSE, requires_reference |-> FALSE,
     has_async |-> TRUE]

AbstractClasses == {"StringEvaluator", "PairwiseStringEvaluator"}

PairwiseClasses == {"PairwiseStringEvaluator", "PairwiseStringEvalChain"}

\* the property, as PairwiseStringEvalChain overrides it
requires_reference(self) ==
    IF self.cls = "PairwiseStringEvalChain"
    THEN \E i \in 1..Len(self.prompt) : self.prompt[i] = "reference"
    ELSE self.requires_reference

requires_input(self) ==
    IF self.cls = "PairwiseStringEvalChain" THEN TRUE
    ELSE self.requires_input

_skip_input_warning(self) ==
    <<"Ignoring input in ", self.cls, ", as it is not expected.">>

_skip_reference_warning(self) ==
    IF self.cls = "PairwiseStringEvalChain"
    THEN <<"Ignoring reference in ", self.cls, ", as it is not expected.",
           "\nTo use a reference, initialize PairwiseStringEvalChain with",
           " `requires_reference=True` or with a prompt with 'reference' as an",
           " input variable.">>
    ELSE <<"Ignoring reference in ", self.cls, ", as it is not expected.">>

\* a plausible slip: a supplied field the evaluator does not use is an error
_check_evaluation_args_strict(self, reference, input) ==
    IF (requires_input(self) /\ input.is_none)
       \/ (~input.is_none /\ ~requires_input(self))
    THEN [raised |-> TRUE, warnings |-> <<>>,
          exc |-> Raised("ValueError",
                         <<self.cls, " requires an input string.">>,
                         "_check_evaluation_args").exc]
    ELSE IF (requires_reference(self) /\ reference.is_none)
            \/ (~reference.is_none /\ ~requires_reference(self))
         THEN [raised |-> TRUE, warnings |-> <<>>,
               exc |-> Raised("ValueError",
                              <<self.cls, " requires a reference string.">>,
                              "_check_evaluation_args").exc]
         ELSE [raised |-> FALSE, warnings |-> <<>>, exc |-> NoException]

\* _EvalArgsMixin._check_evaluation_args: the exception it raises, if any,
\* and the warnings it has emitted by then, in order
_check_evaluation_args(self, reference, input) ==
    IF requires_input(self) /\ input.is_none
    THEN [raised |-> TRUE, warnings |-> <<>>,
          exc |-> Raised("ValueError",
                         <<self.cls, " requires an input string.">>,
                         "_check_evaluation_args").exc]
    ELSE LET w1 == IF ~input.is_none /\ ~requires_input(self)
                   THEN <<_skip_input_warning(self)>> ELSE <<>>
         IN  IF requires_reference(self) /\ reference.is_none
             THEN [raised |-> TRUE, warnings |-> w1,
                   exc |-> Raised("ValueError",
                                  <<self.cls, " requires a reference string.">>,
                                  "_check_evaluation_args").exc]
             ELSE IF ~reference.is_none /\ ~requires_reference(self)
                  THEN [raised |-> FALSE,
                        warnings |-> w1 \o <<_skip_reference_warning(self)>>,
                        exc |-> NoException]
                  ELSE [raised |-> FALSE, warnings |-> w1,
                        exc |-> NoException]

(***************************************************************************)
(* PairwiseStringEvalChain: construction and payload assembly.             *)
(***************************************************************************)
PromptTemplate(input_variables) == [input_variables |-> input_variables]

\* the two default templates of langchain.evaluation.comparison.prompt
PROMPT == PromptTemplate(<<"input", "prediction", "prediction_b">>)

PROMPT_WITH_REFERENCE ==
    PromptTemplate(<<"input", "prediction", "prediction_b", "reference">>)

NoPrompt == [is_none |-> TRUE, template |-> PromptTemplate(<<>>)]

SomePrompt(t) == [is_none |-> FALSE, template |-> t]

\* a plausible slip: reference is added only on the default-template branch
expected_input_vars_default_only(prompt, requires_reference_) ==
    {"prediction", "prediction_b", "input"}
        \cup (IF prompt.is_none /\ requires_reference_
              THEN {"reference"} ELSE {})

\* from_llm, lines 123-133: the variable set the template must declare
expected_input_vars(prompt, requires_reference_) ==
    {"prediction", "prediction_b", "input"}
        \cup (IF requires_reference_ THEN {"reference"} ELSE {})

\* from_llm, lines 124-133: the template that is checked and used
chosen_prompt(prompt, requires_reference_) ==
    IF prompt.is_none
    THEN IF requires_reference_ THEN PROMPT_WITH_REFERENCE ELSE PROMPT
    ELSE prompt.template

NoConstruction ==
    [called |-> FALSE, prompt |-> NoPrompt, requires_reference |-> FALSE,
     raised |-> FALSE, exc |-> NoException]

EmptyDict == [k \in {} |-> <<>>]

\* a plausible slip: input is tested against None only
_prepare_input_none_only(self, prediction, prediction_b, input, reference) ==
    IF requires_input(self) /\ input.is_none
    THEN [raised |-> TRUE, payload |-> EmptyDict,
          exc |-> Raised("ValueError",
                         <<"Input is require for this comparison evaluator">>,
                         "_prepare_input").exc]
    ELSE IF requires_reference(self) /\ reference.is_none
         THEN [raised |-> TRUE, payload |-> EmptyDict,
               exc |-> Raised("ValueError",
                        <<"Reference is required for this comparison evaluator">>,
                        "_prepare_input").exc]
         ELSE [raised |-> FALSE, exc |-> NoException,
               payload |->
                 [k \in {"prediction", "prediction_b"}
                        \cup (IF requires_input(self) THEN {"input"} ELSE {})
                        \cup (IF requires_reference(self)
                              THEN {"reference"} ELSE {}) |->
                    IF k = "prediction" THEN prediction
                    ELSE IF k = "prediction_b" THEN prediction_b
                    ELSE IF k = "input" THEN input.str
                    ELSE reference.str]]

\* a plausible slip: a reference is sent whenever one is supplied
_prepare_input_any_reference(self, prediction, prediction_b, input, reference) ==
    IF requires_input(self) /\ (input.is_none \/ input.str = <<>>)
    THEN [raised |-> TRUE, payload |-> EmptyDict,
          exc |-> Raised("ValueError",
                         <<"Input is require for this comparison evaluator">>,
                         "_prepare_input").exc]
    ELSE IF requires_reference(self) /\ reference.is_none
         THEN [raised |-> TRUE, payload |-> EmptyDict,
               exc |-> Raised("ValueError",
                        <<"Reference is required for this comparison evaluator">>,
                        "_prepare_input").exc]
         ELSE [raised |-> FALSE, exc |-> NoException,
               payload |->
                 [k \in {"prediction", "prediction_b"}
                        \cup (IF requires_input(self) THEN {"input"} ELSE {})
                        \cup (IF ~reference.is_none
                              THEN {"reference"} ELSE {}) |->
                    IF k = "prediction" THEN prediction
                    ELSE IF k = "prediction_b" THEN prediction_b
                    ELSE IF k = "input" THEN input.str
                    ELSE reference.str]]

\* PairwiseStringEvalChain._prepare_input: `not input` is true of None and
\* of the empty string; the reference is tested against None only
_prepare_input(self, prediction, prediction_b, input, reference) ==
    IF requires_input(self) /\ (input.is_none \/ input.str = <<>>)
    THEN [raised |-> TRUE, payload |-> EmptyDict,
          exc |-> Raised("ValueError",
                         <<"Input is require for this comparison evaluator">>,
                         "_prepare_input").exc]
    ELSE IF requires_reference(self) /\ reference.is_none
         THEN [raised |-> TRUE, payload |-> EmptyDict,
               exc |-> Raised("ValueError",
                        <<"Reference is required for this comparison evaluator">>,
                        "_prepare_input").exc]
         ELSE [raised |-> FALSE, exc |-> NoException,
               payload |->
                 [k \in {"prediction", "prediction_b"}
                        \cup (IF requires_input(self) THEN {"input"} ELSE {})
                        \cup (IF requires_reference(self)
                              THEN {"reference"} ELSE {}) |->
                    IF k = "prediction" THEN prediction
                    ELSE IF k = "prediction_b" THEN prediction_b
                    ELSE IF k = "input" THEN input.str
                    ELSE reference.str]]

(***************************************************************************)
(* Inputs of the operations.                                               *)
(***************************************************************************)
Modes == {"sync", "async"}

Predictions == {<<"p">>}

PredictionsB == {<<"b">>}

Inputs == {None, Some(<<>>), Some(<<"q">>)}

References == {None, Some(<<>>), Some(<<"f">>)}

\* the characters reply texts are drawn from
Alphabet == {"r", " ", "\n", "[", "]", "A", "B", "C", "D"}

Verdicts == {"A", "B", "C"}

\* a verdict line: opening brackets, one token, closing brackets
VerdictLine(m, X, n) == Repeat("[", m) \o <<X>> \o Repeat("]", n)

\* the replies parse is applied to: every short text, and every short
\* reasoning followed by a line boundary and a verdict line
ParseInputs ==
    StringsUpTo(Alphabet, MaxLen)
        \cup {R \o <<"\n">> \o VerdictLine(m, X, n) :
                R \in StringsUpTo(Alphabet, MaxReasonLen),
                X \in Verdicts \cup {"D"},
                m \in 0..MaxBrackets, n \in 0..MaxBrackets}

\* the characters the completion capability's replies are drawn from
ReplyAlphabet == {"r", "\n", "A"}

UpstreamErrors == {"TimeoutError", "ProviderError"}

\* what the completion capability does: return a reply, or raise
Completions ==
    {[raises |-> FALSE, text |-> t, error |-> ""] :
        t \in StringsUpTo(ReplyAlphabet, MaxReplyLen)}
    \cup {[raises |-> TRUE, text |-> <<>>, error |-> e] : e \in UpstreamErrors}

\* the names a prompt template may declare, in a fixed order
TemplateVariables ==
    <<"input", "prediction", "prediction_b", "reference", "context">>

\* the templates a caller supplies: any selection of the names, either order
Prompts ==
    LET pick(S) == SelectSeq(TemplateVariables, LAMBDA v : v \in S)
    IN  {SomePrompt(PromptTemplate(pick(S))) :
            S \in SUBSET ToSet(TemplateVariables)}
        \cup {SomePrompt(PromptTemplate(Reverse(pick(S)))) :
                S \in SUBSET ToSet(TemplateVariables)}
        \cup {NoPrompt}

\* what a subclass's own _evaluate_strings / _evaluate_string_pairs yields
InnerOutcomes ==
    {Returned([reasoning |-> <<"o", "k">>, value |-> Some(<<"Y">>),
               score |-> "1"]),
     Raised("RuntimeError", <<"evaluation failed">>, "_evaluate")}

NotParsed == [status |-> "none", value |-> NoValue, exc |-> NoException]

(***************************************************************************)
(* An evaluation call: the arguments, how far it got, what it did.         *)
(***************************************************************************)
IdleCall ==
    [pc |-> "idle", method |-> "", self |-> NoEvaluator,
     prediction |-> <<>>, prediction_b |-> <<>>,
     reference |-> None, input |-> None,
     warnings |-> <<>>, inner |-> 0, payload |-> EmptyDict,
     invocations |-> 0, replied |-> FALSE, outcome |-> NotParsed]

NewCall(method, self, prediction, prediction_b, reference, input) ==
    [IdleCall EXCEPT !.pc = "running", !.method = method, !.self = self,
                     !.prediction = prediction, !.prediction_b = prediction_b,
                     !.reference = reference, !.input = input]

\* the call ends: it returns, or the exception leaves it
Finish(frame, outcome) == [frame EXCEPT !.pc = "done", !.outcome = outcome]

\* LLMChain.__call__ up to the request: the payload goes to the completion
\* capability, once, and the call waits for the reply
LLMChain_call(frame, inputs) ==
    [frame EXCEPT !.pc = "awaiting", !.payload = inputs,
                  !.invocations = @ + 1]

\* LLMChain.acall up to the request: as __call__, awaited
LLMChain_acall(frame, inputs) ==
    [frame EXCEPT !.pc = "awaiting", !.payload = inputs,
                  !.invocations = @ + 1]

\* LLMChain, from the reply on: the raw reply goes through the output
\* parser, and the chain's result is {"text": <the parsed dict>}
LLMChain_create_outputs(reply) ==
    LET p == parse(reply)
    IN  IF p.status = "raised" THEN p ELSE Returned([text |-> p.value])

\* PairwiseStringEvalChain._evaluate_string_pairs, lines 191-196
_evaluate_string_pairs(frame) ==
    LET input_ == _prepare_input(frame.self, frame.prediction,
                                 frame.prediction_b, frame.input,
                                 frame.reference)
        entered == [frame EXCEPT !.inner = @ + 1]
    IN  IF input_.raised
        THEN Finish(entered, [status |-> "raised", value |-> NoValue,
                              exc |-> input_.exc])
        ELSE LLMChain_call(entered, input_.payload)

\* PairwiseStringEvalChain._aevaluate_string_pairs, lines 227-232
_aevaluate_string_pairs(frame) ==
    LET input_ == _prepare_input(frame.self, frame.prediction,
                                 frame.prediction_b, frame.input,
                                 frame.reference)
        entered == [frame EXCEPT !.inner = @ + 1]
    IN  IF input_.raised
        THEN Finish(entered, [status |-> "raised", value |-> NoValue,
                              exc |-> input_.exc])
        ELSE LLMChain_acall(entered, input_.payload)

\* the default StringEvaluator._aevaluate_strings and
\* PairwiseStringEvaluator._aevaluate_string_pairs
NotImplemented(self, method) ==
    Raised("NotImplementedError",
           <<self.cls, " hasn't implemented an async ", method, " method.">>,
           "_aevaluate")

(***************************************************************************)
(* Operations.                                                             *)
(***************************************************************************)
AllIdle == \A m \in Modes : calls[m].pc = "idle"

SlotFree(m) == calls[m].pc \in {"idle", "done"}

\* the output parser is applied to a reply
ParseReply ==
    /\ parsed = NotParsed
    /\ parsed' = parse(text)
    /\ UNCHANGED <<text, evaluator, construction, completion, calls>>

\* a subclass of StringEvaluator or PairwiseStringEvaluator is instantiated;
\* an evaluator is built before the calls on it are made
Instantiate(cls, ri, rr, ha) ==
    /\ AllIdle
    /\ evaluator' = Subclass(cls, ri, rr, ha)
    /\ UNCHANGED <<text, parsed, construction, completion, calls>>

\* PairwiseStringEvalChain.from_llm
from_llm(prompt, requires_reference_) ==
    /\ AllIdle
    /\ LET expected == expected_input_vars(prompt, requires_reference_)
           prompt_ == chosen_prompt(prompt, requires_reference_)
           call == [called |-> TRUE, prompt |-> prompt,
                    requires_reference |-> requires_reference_,
                    raised |-> FALSE, exc |-> NoException]
       IN  IF expected # ToSet(prompt_.input_variables)
           THEN /\ construction' =
                     [call EXCEPT !.raised = TRUE,
                        !.exc = Raised("ValueError",
                                       <<"Input variables should be ", expected,
                                         ", but got ", prompt_.input_variables>>,
                                       "from_llm").exc]
                /\ evaluator' = NoEvaluator
           ELSE /\ construction' = call
                /\ evaluator' = Chain(prompt_)
    /\ UNCHANGED <<text, parsed, completion, calls>>

\* the exception leaves the call
Raise(frame, exc) ==
    Finish(frame, [status |-> "raised", value |-> NoValue, exc |-> exc])

\* StringEvaluator.evaluate_strings; _evaluate_strings is the subclass's own
evaluate_strings(prediction, reference, input) ==
    /\ evaluator.cls = "StringEvaluator"
    /\ SlotFree("sync")
    /\ LET frame == NewCall("evaluate_strings", evaluator, prediction, <<>>,
                            reference, input)
           chk == _check_evaluation_args(evaluator, reference, input)
           checked == [frame EXCEPT !.warnings = chk.warnings]
       IN  IF chk.raised
           THEN calls' = [calls EXCEPT !["sync"] = Raise(checked, chk.exc)]
           ELSE \E result \in InnerOutcomes :
                  calls' = [calls EXCEPT !["sync"] =
                      Finish([checked EXCEPT !.inner = @ + 1], result)]
    /\ UNCHANGED <<text, parsed, evaluator, construction, completion>>

\* StringEvaluator.aevaluate_strings; _aevaluate_strings is the subclass's
\* own, or the default that raises NotImplementedError
aevaluate_strings(prediction, reference, input) ==
    /\ evaluator.cls = "StringEvaluator"
    /\ SlotFree("async")
    /\ LET frame == NewCall("aevaluate_strings", evaluator, prediction, <<>>,
                            reference, input)
           chk == _check_evaluation_args(evaluator, reference, input)
           checked == [frame EXCEPT !.warnings = chk.warnings]
       IN  IF chk.raised
           THEN calls' = [calls EXCEPT !["async"] = Raise(checked, chk.exc)]
           ELSE IF ~evaluator.has_async
                THEN calls' = [calls EXCEPT !["async"] =
                         Finish([checked EXCEPT !.inner = @ + 1],
                                NotImplemented(evaluator, "aevaluate_strings"))]
                ELSE \E result \in InnerOutcomes :
                       calls' = [calls EXCEPT !["async"] =
                           Finish([checked EXCEPT !.inner = @ + 1], result)]
    /\ UNCHANGED <<text, parsed, evaluator, construction, completion>>

\* a plausible slip: the request goes out before the arguments are checked
evaluate_string_pairs_late_check(prediction, prediction_b, reference, input) ==
    /\ evaluator.cls \in PairwiseClasses
    /\ SlotFree("sync")
    /\ LET frame == NewCall("evaluate_string_pairs", evaluator, prediction,
                            prediction_b, reference, input)
           chk == _check_evaluation_args(evaluator, reference, input)
           checked == [frame EXCEPT !.warnings = chk.warnings]
           sent == LLMChain_call([checked EXCEPT !.inner = @ + 1],
                                 [k \in {"prediction", "prediction_b"} |->
                                    IF k = "prediction" THEN prediction
                                    ELSE prediction_b])
       IN  IF evaluator.cls = "PairwiseStringEvalChain"
           THEN calls' = [calls EXCEPT !["sync"] =
                    IF chk.raised THEN Raise(sent, chk.exc)
                    ELSE _evaluate_string_pairs(checked)]
           ELSE \E result \in InnerOutcomes :
                  calls' = [calls EXCEPT !["sync"] =
                      Finish([checked EXCEPT !.inner = @ + 1], result)]
    /\ UNCHANGED <<text, parsed, evaluator, construction, completion>>

\* PairwiseStringEvaluator.evaluate_string_pairs; _evaluate_string_pairs is
\* the chain's, or the subclass's own
evaluate_string_pairs(prediction, prediction_b, reference, input) ==
    /\ evaluator.cls \in PairwiseClasses
    /\ SlotFree("sync")
    /\ LET frame == NewCall("evaluate_string_pairs", evaluator, prediction,
                            prediction_b, reference, input)
           chk == _check_evaluation_args(evaluator, reference, input)
           checked == [frame EXCEPT !.warnings = chk.warnings]
       IN  IF chk.raised
           THEN calls' = [calls EXCEPT !["sync"] = Raise(checked, chk.exc)]
           ELSE IF evaluator.cls = "PairwiseStringEvalChain"
                THEN calls' = [calls EXCEPT !["sync"] =
                         _evaluate_string_pairs(checked)]
                ELSE \E result \in InnerOutcomes :
                       calls' = [calls EXCEPT !["sync"] =
                           Finish([checked EXCEPT !.inner = @ + 1], result)]
    /\ UNCHANGED <<text, parsed, evaluator, construction, completion>>

\* a plausible slip: the async entry point goes without the argument check
aevaluate_string_pairs_unchecked(prediction, prediction_b, reference, input) ==
    /\ evaluator.cls \in PairwiseClasses
    /\ SlotFree("async")
    /\ LET frame == NewCall("aevaluate_string_pairs", evaluator, prediction,
                            prediction_b, reference, input)
       IN  IF evaluator.cls = "PairwiseStringEvalChain"
           THEN calls' = [calls EXCEPT !["async"] =
                    _aevaluate_string_pairs(frame)]
           ELSE \E result \in InnerOutcomes :
                  calls' = [calls EXCEPT !["async"] =
                      Finish([frame EXCEPT !.inner = @ + 1], result)]
    /\ UNCHANGED <<text, parsed, evaluator, construction, completion>>

\* PairwiseStringEvaluator.aevaluate_string_pairs; _aevaluate_string_pairs
\* is the chain's, the subclass's own, or the default that raises
\* NotImplementedError
aevaluate_string_pairs(prediction, prediction_b, reference, input) ==
    /\ evaluator.cls \in PairwiseClasses
    /\ SlotFree("async")
    /\ LET frame == NewCall("aevaluate_string_pairs", evaluator, prediction,
                            prediction_b, reference, input)
           chk == _check_evaluation_args(evaluator, reference, input)
           checked == [frame EXCEPT !.warnings = chk.warnings]
       IN  IF chk.raised
           THEN calls' = [calls EXCEPT !["async"] = Raise(checked, chk.exc)]
           ELSE IF evaluator.cls = "PairwiseStringEvalChain"
                THEN calls' = [calls EXCEPT !["async"] =
                         _aevaluate_string_pairs(checked)]
                ELSE IF ~evaluator.has_async
                     THEN calls' = [calls EXCEPT !["async"] =
                              Finish([checked EXCEPT !.inner = @ + 1],
                                     NotImplemented(evaluator,
                                                    "aevaluate_string_pairs"))]
                     ELSE \E result \in InnerOutcomes :
                            calls' = [calls EXCEPT !["async"] =
                                Finish([checked EXCEPT !.inner = @ + 1],
                                       result)]
    /\ UNCHANGED <<text, parsed, evaluator, construction, completion>>

\* the completion capability returns its reply: the chain parses it and
\* _evaluate_string_pairs / _aevaluate_string_pairs return result["text"]
CompletionReturns(m) ==
    /\ calls[m].pc = "awaiting"
    /\ ~completion.raises
    /\ LET result == LLMChain_create_outputs(completion.text)
           frame == [calls[m] EXCEPT !.replied = TRUE]
       IN  calls' = [calls EXCEPT ![m] =
               IF result.status = "raised"
               THEN Finish(frame, result)
               ELSE Finish(frame, Returned(result.value.text))]
    /\ UNCHANGED <<text, parsed, evaluator, construction, completion>>

\* a plausible slip: the upstream error is caught and the request repeated
CompletionRaises_retry(m) ==
    /\ calls[m].pc = "awaiting"
    /\ completion.raises
    /\ calls' = [calls EXCEPT ![m] =
           IF calls[m].invocations < 2
           THEN [calls[m] EXCEPT !.invocations = @ + 1]
           ELSE Finish(calls[m], Returned([reasoning |-> <<>>, value |-> None,
                                           score |-> "0.5"]))]
    /\ UNCHANGED <<text, parsed, evaluator, construction, completion>>

\* the completion capability raises: nothing on the way catches the error
CompletionRaises(m) ==
    /\ calls[m].pc = "awaiting"
    /\ completion.raises
    /\ calls' = [calls EXCEPT ![m] =
           Finish(calls[m], Raised(completion.error, <<>>, "completion"))]
    /\ UNCHANGED <<text, parsed, evaluator, construction, completion>>

(***************************************************************************)
(* Specifications.                                                         *)
(***************************************************************************)
\* PairwiseStringEvalChain: construction, then evaluation calls on it
Init ==
    /\ text = <<>>
    /\ parsed = NotParsed
    /\ evaluator = NoEvaluator
    /\ construction = NoConstruction
    /\ completion \in Completions
    /\ calls = [m \in Modes |-> IdleCall]

Next ==
    \/ \E prompt \in Prompts, rr \in BOOLEAN : from_llm(prompt, rr)
    \/ \E p \in Predictions, b \in PredictionsB, f \in References, i \in Inputs :
         evaluate_string_pairs(p, b, f, i)
    \/ \E p \in Predictions, b \in PredictionsB, f \in References, i \in Inputs :
         aevaluate_string_pairs(p, b, f, i)
    \/ \E m \in Modes : CompletionReturns(m)
    \/ \E m \in Modes : CompletionRaises(m)

Spec == Init /\ [][Next]_vars

\* the evaluator protocol: the four public entry points of schema.py on any
\* subclass, whose own evaluation may return or raise anything
InitProtocol ==
    /\ text = <<>>
    /\ parsed = NotParsed
    /\ evaluator = NoEvaluator
    /\ construction = NoConstruction
    /\ completion = [raises |-> FALSE, text |-> <<"r", "\n", "A">>, error |-> ""]
    /\ calls = [m \in Modes |-> IdleCall]

NextProtocol ==
    \/ \E cls \in AbstractClasses, ri \in BOOLEAN, rr \in BOOLEAN,
          ha \in BOOLEAN : Instantiate(cls, ri, rr, ha)
    \/ \E p \in Predictions, f \in References, i \in Inputs :
         evaluate_strings(p, f, i)
    \/ \E p \in Predictions, f \in References, i \in Inputs :
         aevaluate_strings(p, f, i)
    \/ \E p \in Predictions, b \in PredictionsB, f \in References, i \in Inputs :
         evaluate_string_pairs(p, b, f, i)
    \/ \E p \in Predictions, b \in PredictionsB, f \in References, i \in Inputs :
         aevaluate_string_pairs(p, b, f, i)

SpecProtocol == InitProtocol /\ [][NextProtocol]_vars

\* the verdict parser on its own, applied to every reply of ParseInputs
InitParse ==
    /\ text \in ParseInputs
    /\ parsed = NotParsed
    /\ evaluator = NoEvaluator
    /\ construction = NoConstruction
    /\ completion = [raises |-> FALSE, text |-> <<>>, error |-> ""]
    /\ calls = [m \in Modes |-> IdleCall]

NextParse == ParseReply

SpecParse == InitParse /\ [][NextParse]_vars

(***************************************************************************)
(* What the claims speak of.                                               *)
(***************************************************************************)
\* the value and the score the spec gives for verdict token X
ExpectedValue(X) == IF X = "C" THEN None ELSE Some(<<X>>)

ExpectedScore(X) == IF X = "A" THEN "1" ELSE IF X = "B" THEN "0" ELSE "0.5"

\* the canonical last line of a reply, with the line boundary before it
CanonicalTail(X) == <<"\n", "[", "[", X, "]", "]">>

EndsWith(s, tail) ==
    /\ Len(s) >= Len(tail)
    /\ SubSeq(s, Len(s) - Len(tail) + 1, Len(s)) = tail

\* s without its last n characters
DropLast(s, n) == SubSeq(s, 1, Len(s) - n)

HasNonWhitespace(s) == \E i \in 1..Len(s) : s[i] \notin Whitespace

HasLineBoundary(s) == \E i \in 1..Len(s) : s[i] = "\n"

\* the text after the last line boundary (the whole text when there is none)
LastLine(s) ==
    IF HasLineBoundary(s)
    THEN LET last == CHOOSE i \in 1..Len(s) :
                         /\ s[i] = "\n"
                         /\ \A j \in (i + 1)..Len(s) : s[j] # "\n"
         IN  SubSeq(s, last + 1, Len(s))
    ELSE s

\* the text before the last line boundary (empty when there is none)
BeforeLastLine(s) ==
    IF HasLineBoundary(s) THEN DropLast(s, Len(LastLine(s)) + 1) ELSE <<>>

\* the verdict token of a reply: its last line once trimmed, without the
\* brackets around it
Token(reply) ==
    strip(strip(LastLine(strip(reply, Whitespace)), {"["}), {"]"})

\* a reply the parser must refuse
Malformed(reply) ==
    \/ ~HasLineBoundary(strip(reply, Whitespace))
    \/ Token(reply) \notin {<<"A">>, <<"B">>, <<"C">>}

IsBracketedVerdict(line, X) ==
    \E m \in 0..Len(line), n \in 0..Len(line) : line = VerdictLine(m, X, n)

IsChain(self) == self.cls = "PairwiseStringEvalChain"

\* a required field of the call is None
MissingRequired(c) ==
    \/ (requires_input(c.self) /\ c.input.is_none)
    \/ (requires_reference(c.self) /\ c.reference.is_none)

UnusedInput(c) == ~c.input.is_none /\ ~requires_input(c.self)

UnusedReference(c) == ~c.reference.is_none /\ ~requires_reference(c.self)

IsUsageError(outcome) ==
    /\ outcome.status = "raised"
    /\ outcome.exc.type = "ValueError"
    /\ outcome.exc.raised_by \in {"_check_evaluation_args", "_prepare_input"}

(***************************************************************************)
(* C1.  As claimed: for every reasoning text R and X in {A, B, C}, parse   *)
(* of R + "\n[[X]]" returns value A, B, None and score 1, 0, 0.5, and the  *)
(* reasoning is R, the text before the final line.                         *)
(***************************************************************************)
C1_EveryReasoning ==
    parsed # NotParsed =>
        \A X \in Verdicts :
            EndsWith(text, CanonicalTail(X)) =>
                parsed = Returned([reasoning |-> DropLast(text, 6),
                                   value |-> ExpectedValue(X),
                                   score |-> ExpectedScore(X)])

(***************************************************************************)
(* C1, amended.  For every reasoning text R with at least one character    *)
(* that is not whitespace and X in {A, B, C}, parse of R + "\n[[X]]"       *)
(* returns value A, B, None and score 1, 0, 0.5 (by X alone), and the      *)
(* reasoning is R without its leading whitespace; when R is empty or all   *)
(* whitespace, parse raises ValueError.                                    *)
(***************************************************************************)
C1_TrimmedReasoning ==
    parsed # NotParsed =>
        \A X \in Verdicts :
            EndsWith(text, CanonicalTail(X)) =>
                LET R == DropLast(text, 6)
                IN  IF HasNonWhitespace(R)
                    THEN parsed = Returned([reasoning |-> lstrip(R, Whitespace),
                                            value |-> ExpectedValue(X),
                                            score |-> ExpectedScore(X)])
                    ELSE /\ parsed.status = "raised"
                         /\ parsed.exc.type = "ValueError"

\* a tie parsed from a reply whose reasoning starts with whitespace
C1_Witness ==
    /\ EndsWith(text, CanonicalTail("C"))
    /\ Len(text) = 8
    /\ text[1] \in Whitespace
    /\ text[2] \notin Whitespace
    /\ parsed.status = "returned"
    /\ parsed.value.value = None
    /\ parsed.value.score = "0.5"
    /\ parsed.value.reasoning = <<text[2]>>

(***************************************************************************)
(* C5.  parse never returns a result for a malformed reply: when the       *)
(* trimmed reply has no line boundary, or the last line without its        *)
(* brackets is not exactly A, B or C, parse raises ValueError, and for an  *)
(* unrecognised token the message contains the token.                      *)
(***************************************************************************)
C5_MalformedRaises ==
    parsed # NotParsed =>
        /\ Malformed(text) =>
               /\ parsed.status = "raised"
               /\ parsed.exc.type = "ValueError"
        /\ (HasLineBoundary(strip(text, Whitespace)) /\ Malformed(text)) =>
               Contains(parsed.exc.message, Token(text))

\* a reply ending in [[D]] is refused with a message that names D
C5_Witness ==
    /\ EndsWith(text, CanonicalTail("D"))
    /\ HasNonWhitespace(DropLast(text, 6))
    /\ parsed.status = "raised"
    /\ parsed.exc.type = "ValueError"
    /\ Token(text) = <<"D">>
    /\ Contains(parsed.exc.message, <<"D">>)

(***************************************************************************)
(* C9.  As claimed: every reply whose final line is m opening brackets, X  *)
(* in {A, B, C} and n closing brackets parses successfully, to the value   *)
(* and score of the canonical [[X]] form.                                  *)
(***************************************************************************)
C9_AnyReply ==
    parsed # NotParsed =>
        \A X \in Verdicts :
            IsBracketedVerdict(LastLine(text), X) =>
                /\ parsed.status = "returned"
                /\ parsed.value.value = ExpectedValue(X)
                /\ parsed.value.score = ExpectedScore(X)

(***************************************************************************)
(* C9, amended.  Every reply made of a reasoning text with at least one    *)
(* character that is not whitespace, a line boundary, and a final line of  *)
(* m opening brackets, X in {A, B, C} and n closing brackets (m, n >= 0)   *)
(* parses successfully, to the value and score of the canonical [[X]]      *)
(* form.                                                                   *)
(***************************************************************************)
C9_BracketCount ==
    parsed # NotParsed =>
        \A X \in Verdicts :
            (/\ HasLineBoundary(text)
             /\ HasNonWhitespace(BeforeLastLine(text))
             /\ IsBracketedVerdict(LastLine(text), X)) =>
                /\ parsed.status = "returned"
                /\ parsed.value.value = ExpectedValue(X)
                /\ parsed.value.score = ExpectedScore(X)

\* three opening brackets and one closing bracket around B
C9_Witness ==
    /\ HasNonWhitespace(BeforeLastLine(text))
    /\ LastLine(text) = VerdictLine(3, "B", 1)
    /\ parsed.status = "returned"
    /\ parsed.value.value = Some(<<"B">>)
    /\ parsed.value.score = "0"

(***************************************************************************)
(* C2.  Fail fast: an evaluate_string_pairs or aevaluate_string_pairs call *)
(* on a PairwiseStringEvalChain with a required field missing (input is    *)
(* None, or reference is None while requires_reference) ends with a usage  *)
(* error and has invoked the completion capability zero times; a from_llm  *)
(* call that failed has invoked it zero times too.                         *)
(***************************************************************************)
C2_FailFast ==
    /\ \A m \in Modes :
         LET c == calls[m]
         IN  (c.pc # "idle" /\ IsChain(c.self) /\ MissingRequired(c)) =>
                 /\ c.pc = "done"
                 /\ IsUsageError(c.outcome)
                 /\ c.invocations = 0
                 /\ c.payload = EmptyDict
    /\ (construction.called /\ construction.raised) =>
           \A m \in Modes : calls[m].invocations = 0 /\ calls[m].pc = "idle"

\* a call without the reference its evaluator requires
C2_Witness ==
    \E m \in Modes :
        LET c == calls[m]
        IN  /\ c.pc = "done"
            /\ IsChain(c.self)
            /\ requires_reference(c.self)
            /\ c.reference.is_none
            /\ ~c.input.is_none
            /\ IsUsageError(c.outcome)
            /\ c.invocations = 0

(***************************************************************************)
(* C3.  For subclasses of StringEvaluator and of PairwiseStringEvaluator,  *)
(* through the sync and the async entry point: an input supplied while     *)
(* requires_input is false, or a reference supplied while                  *)
(* requires_reference is false, is warned about and is not an error; with  *)
(* every required field present the call runs the underlying evaluation    *)
(* once and ends as that evaluation ends.                                  *)
(***************************************************************************)
C3_WarnAndProceed ==
    \A m \in Modes :
        LET c == calls[m]
        IN  (/\ c.pc # "idle"
             /\ ~MissingRequired(c)
             /\ (UnusedInput(c) \/ UnusedReference(c))) =>
                /\ UnusedInput(c) =>
                       Contains(c.warnings, <<_skip_input_warning(c.self)>>)
                /\ UnusedReference(c) =>
                       Contains(c.warnings, <<_skip_reference_warning(c.self)>>)
                /\ c.pc = "done"
                /\ c.inner = 1
                /\ c.outcome.exc.raised_by # "_check_evaluation_args"
                /\ \/ c.outcome \in InnerOutcomes
                   \/ /\ ~c.self.has_async
                      /\ c.method \in {"aevaluate_strings",
                                       "aevaluate_string_pairs"}
                      /\ c.outcome = NotImplemented(c.self, c.method)

\* the pairwise entry points, async with both fields supplied and neither
\* used, sync with an unused input, both returning the evaluation's result
C3_Witness ==
    /\ calls["async"].method = "aevaluate_string_pairs"
    /\ UnusedInput(calls["async"])
    /\ UnusedReference(calls["async"])
    /\ Len(calls["async"].warnings) = 2
    /\ calls["async"].outcome.status = "returned"
    /\ calls["sync"].method = "evaluate_string_pairs"
    /\ UnusedInput(calls["sync"])
    /\ calls["sync"].outcome.status = "returned"

(***************************************************************************)
(* C4.  from_llm succeeds if and only if the input variables of the chosen *)
(* template (the supplied one, or the default one when prompt is None),    *)
(* as a set, are {prediction, prediction_b, input} plus reference exactly  *)
(* when requires_reference; otherwise it raises ValueError and no          *)
(* evaluator is constructed.                                               *)
(***************************************************************************)
C4_FromLLM ==
    construction.called =>
        LET template == IF construction.prompt.is_none
                        THEN IF construction.requires_reference
                             THEN PROMPT_WITH_REFERENCE ELSE PROMPT
                        ELSE construction.prompt.template
            declared == ToSet(template.input_variables)
            wanted == IF construction.requires_reference
                      THEN {"prediction", "prediction_b", "input", "reference"}
                      ELSE {"prediction", "prediction_b", "input"}
        IN  /\ ~construction.raised <=> (declared = wanted)
            /\ construction.raised =>
                   /\ construction.exc.type = "ValueError"
                   /\ evaluator = NoEvaluator
            /\ ~construction.raised =>
                   /\ IsChain(evaluator)
                   /\ evaluator.prompt = template.input_variables

\* a supplied template that declares reference, requires_reference false
C4_Witness ==
    /\ construction.called
    /\ ~construction.prompt.is_none
    /\ ~construction.requires_reference
    /\ ToSet(construction.prompt.template.input_variables)
           = {"prediction", "prediction_b", "input", "reference"}
    /\ construction.raised
    /\ evaluator = NoEvaluator

(***************************************************************************)
(* C10.  For every evaluator a successful from_llm returned:               *)
(* requires_input is true, requires_reference is the argument that was     *)
(* passed, and every payload _prepare_input returns, hence every payload   *)
(* submitted to the completion capability, has exactly the template's      *)
(* declared input variables as its keys.                                   *)
(***************************************************************************)
C10_PayloadKeys ==
    /\ IsChain(evaluator) =>
           /\ requires_input(evaluator)
           /\ requires_reference(evaluator) <=> construction.requires_reference
           /\ \A p \in Predictions, b \in PredictionsB, i \in Inputs,
                 f \in References :
                  LET r == _prepare_input(evaluator, p, b, i, f)
                  IN  ~r.raised => DOMAIN r.payload = ToSet(evaluator.prompt)
    /\ \A m \in Modes :
           calls[m].invocations > 0 =>
               DOMAIN calls[m].payload = ToSet(calls[m].self.prompt)

\* a reference was supplied, is not used, and is not in the payload sent
C10_Witness ==
    \E m \in Modes :
        /\ calls[m].pc = "awaiting"
        /\ ~requires_reference(calls[m].self)
        /\ calls[m].reference = Some(<<"f">>)
        /\ DOMAIN calls[m].payload = {"prediction", "prediction_b", "input"}
        /\ ToSet(calls[m].self.prompt) = {"prediction", "prediction_b", "input"}

(***************************************************************************)
(* C8.  _prepare_input raises a usage error when the required input is     *)
(* None or the empty string (a call with input="" passes the argument      *)
(* check and still fails before any completion call); a required reference *)
(* fails only when it is None, and an empty reference is accepted and put  *)
(* in the payload.                                                         *)
(***************************************************************************)
C8_InputReferenceAsymmetry ==
    /\ IsChain(evaluator) =>
           \A p \in Predictions, b \in PredictionsB, f \in References :
               /\ _prepare_input(evaluator, p, b, None, f).raised
               /\ _prepare_input(evaluator, p, b, Some(<<>>), f).raised
               /\ _prepare_input(evaluator, p, b, Some(<<>>), f).exc.type
                      = "ValueError"
               /\ requires_reference(evaluator) =>
                      LET r == _prepare_input(evaluator, p, b, Some(<<"q">>), f)
                      IN  /\ r.raised <=> f.is_none
                          /\ ~f.is_none => r.payload["reference"] = f.str
    /\ \A m \in Modes :
           LET c == calls[m]
           IN  /\ (/\ c.pc # "idle" /\ IsChain(c.self)
                   /\ c.input = Some(<<>>) /\ ~MissingRequired(c)) =>
                       /\ c.pc = "done"
                       /\ c.outcome.status = "raised"
                       /\ c.outcome.exc.type = "ValueError"
                       /\ c.outcome.exc.raised_by = "_prepare_input"
                       /\ c.invocations = 0
               /\ (/\ c.pc # "idle" /\ IsChain(c.self)
                   /\ requires_reference(c.self)
                   /\ c.input = Some(<<"q">>) /\ c.reference = Some(<<>>)) =>
                       /\ c.invocations = 1
                       /\ c.payload["reference"] = <<>>

\* one call refused for its empty input, one sent with its empty reference
C8_Witness ==
    /\ calls["sync"].pc = "done"
    /\ calls["sync"].input = Some(<<>>)
    /\ calls["sync"].reference = Some(<<>>)
    /\ calls["sync"].outcome.exc.raised_by = "_prepare_input"
    /\ calls["sync"].invocations = 0
    /\ requires_reference(calls["async"].self)
    /\ calls["async"].input = Some(<<"q">>)
    /\ calls["async"].reference = Some(<<>>)
    /\ calls["async"].invocations = 1
    /\ calls["async"].payload["reference"] = <<>>

(***************************************************************************)
(* C6.  The sync and the async path are one algorithm: with the same       *)
(* evaluator, the same arguments and the same completion outcome,          *)
(* evaluate_string_pairs and aevaluate_string_pairs submit the same        *)
(* payload, emit the same warnings and end in the same outcome (the same   *)
(* parsed result, or the same error raised at the same stage).             *)
(***************************************************************************)
C6_SyncAsyncAgree ==
    LET s == calls["sync"]
        a == calls["async"]
    IN  (/\ s.pc # "idle" /\ a.pc # "idle"
         /\ s.self = a.self
         /\ s.prediction = a.prediction /\ s.prediction_b = a.prediction_b
         /\ s.input = a.input /\ s.reference = a.reference) =>
            /\ s.payload = a.payload
            /\ s.invocations = a.invocations
            /\ s.warnings = a.warnings
            /\ (s.pc = "done" /\ a.pc = "done") => s.outcome = a.outcome

\* both paths returned the parsed reply of the same request
C6_Witness ==
    /\ calls["sync"].pc = "done"
    /\ calls["async"].pc = "done"
    /\ calls["sync"].input = calls["async"].input
    /\ calls["sync"].reference = calls["async"].reference
    /\ calls["sync"].replied
    /\ calls["async"].replied
    /\ calls["sync"].outcome.status = "returned"
    /\ calls["async"].outcome = calls["sync"].outcome
    /\ calls["async"].payload = calls["sync"].payload

(***************************************************************************)
(* C7.  No retry: an evaluation call invokes the completion capability at  *)
(* most once; a parse error occurs only after that one invocation has      *)
(* returned a reply; a malformed reply and an upstream error both end the  *)
(* call with that error, after one invocation, never with a result.        *)
(***************************************************************************)
C7_NoRetry ==
    \A m \in Modes :
        LET c == calls[m]
        IN  /\ c.invocations <= 1
            /\ c.outcome.exc.raised_by = "parse" =>
                   /\ c.replied
                   /\ c.invocations = 1
                   /\ ~completion.raises
            /\ (c.pc = "done" /\ c.invocations > 0 /\ completion.raises) =>
                   /\ c.outcome = Raised(completion.error, <<>>, "completion")
                   /\ c.invocations = 1
                   /\ ~c.replied
            /\ (c.pc = "done" /\ c.invocations > 0 /\ ~completion.raises
                /\ Malformed(completion.text)) =>
                   /\ c.outcome.status = "raised"
                   /\ c.outcome.exc.type = "ValueError"
                   /\ c.outcome.exc.raised_by = "parse"
                   /\ c.invocations = 1

\* a call ended by the parse error of the one reply it received
C7_Witness ==
    \E m \in Modes :
        /\ calls[m].pc = "done"
        /\ calls[m].replied
        /\ calls[m].invocations = 1
        /\ calls[m].outcome.exc.raised_by = "parse"
        /\ Contains(calls[m].outcome.exc.message, <<"r">>)

====
